---- MODULE Spec2Model ----
(***************************************************************************)
(* Model of src/App.js: the Excel import pipeline (pickAndParseExcel,      *)
(* safeFloat), the two filtered views (TableScreen, MapScreen) and the     *)
(* camera framing handler (onMapLayout) of the restaurant viewer.          *)
(*                                                                         *)
(* JavaScript strings are sequences of one-character strings, so that      *)
(* trim, toLowerCase, includes, replace and parseFloat are computed and    *)
(* not assumed.  JavaScript values are records [k, s, n]: k is the type    *)
(* tag, s the text of a string, n the value of a number.  Numbers are      *)
(* fixed-point with two decimals: the number x is held as x * Scale.       *)
(***************************************************************************)
EXTENDS Integers, Sequences, FiniteSets, TLC

VARIABLES data, error, search, pc, file, lastCall, lastDone, lastOk

vars == <<data, error, search, pc, file, lastCall, lastDone, lastOk>>

(***************************************************************************)
(* JavaScript values                                                       *)
(***************************************************************************)
Scale == 10 * 10

S(s) == [k |-> "s", s |-> s, n |-> 0]

N(n) == [k |-> "n", s |-> <<>>, n |-> n]

Undefined == [k |-> "undefined", s |-> <<>>, n |-> 0]

Null == [k |-> "null", s |-> <<>>, n |-> 0]

NaN == [k |-> "nan", s |-> <<>>, n |-> 0]

Infinity == [k |-> "inf", s |-> <<>>, n |-> 0]

\* ToBoolean: '' , 0, NaN, null and undefined are falsy.
Truthy(v) ==
  CASE v.k = "s" -> v.s # <<>>
    [] v.k = "n" -> v.n # 0
    [] v.k = "inf" -> TRUE
    [] OTHER -> FALSE

\* a || b
Or(a, b) == IF Truthy(a) THEN a ELSE b

\* r.h : property read of a row object; a missing key reads undefined.
Get(r, h) == IF h \in DOMAIN r THEN r[h] ELSE Undefined

(***************************************************************************)
(* Strings                                                                 *)
(***************************************************************************)
Uppers == <<"A","B","C","D","E","F","G","H","I","J","K","L","M",
            "N","O","P","Q","R","S","T","U","V","W","X","Y","Z">>

Lowers == <<"a","b","c","d","e","f","g","h","i","j","k","l","m",
            "n","o","p","q","r","s","t","u","v","w","x","y","z">>

Digits == <<"0","1","2","3","4","5","6","7","8","9">>

\* The white space of the input sets (trim and parseFloat strip more kinds).
WhiteSpace == {" "}

UpperSet == {Uppers[i] : i \in 1..Len(Uppers)}

LowerOf == [c \in UpperSet |-> Lowers[CHOOSE i \in 1..Len(Uppers) : Uppers[i] = c]]

LowerChar(c) == IF c \in UpperSet THEN LowerOf[c] ELSE c

\* String.prototype.toLowerCase
toLowerCase(s) == [i \in 1..Len(s) |-> LowerChar(s[i])]

RECURSIVE TrimStart(_)
TrimStart(s) ==
  IF s # <<>> /\ Head(s) \in WhiteSpace THEN TrimStart(Tail(s)) ELSE s

RECURSIVE TrimEnd(_)
TrimEnd(s) ==
  IF s # <<>> /\ s[Len(s)] \in WhiteSpace
  THEN TrimEnd(SubSeq(s, 1, Len(s) - 1))
  ELSE s

\* String.prototype.trim
trim(s) == TrimEnd(TrimStart(s))

StartsWith(s, p) == Len(p) <= Len(s) /\ SubSeq(s, 1, Len(p)) = p

\* String.prototype.includes
includes(s, q) ==
  \E i \in 0..(Len(s) - Len(q)) : SubSeq(s, i + 1, i + Len(q)) = q

\* String.prototype.replace(a, b) with a string pattern: first occurrence only.
RECURSIVE replace(_, _, _)
replace(s, a, b) ==
  IF s = <<>> THEN <<>>
  ELSE IF Head(s) = a THEN <<b>> \o Tail(s)
  ELSE <<Head(s)>> \o replace(Tail(s), a, b)

DigitSet == {Digits[i] : i \in 1..Len(Digits)}

DigitOf == [c \in DigitSet |-> (CHOOSE i \in 1..Len(Digits) : Digits[i] = c) - 1]

IsDigit(c) == c \in DigitSet

DigitVal(c) == DigitOf[c]

\* Decimal digits of a natural number.
RECURSIVE NatToStr(_)
NatToStr(n) ==
  IF n < 10 THEN <<Digits[n + 1]>>
  ELSE NatToStr(n \div 10) \o <<Digits[(n % 10) + 1]>>

\* Number::toString of a fixed-point number: sign, integer part, and the
\* fraction without trailing zeros ("12.5", "0.05", "3").
NumToStr(n) ==
  LET a == IF n < 0 THEN -n ELSE n
      ip == a \div Scale
      fp == a % Scale
      frac == IF fp = 0 THEN <<>>
              ELSE IF fp % 10 = 0 THEN <<".", Digits[(fp \div 10) + 1]>>
              ELSE <<".", Digits[(fp \div 10) + 1], Digits[(fp % 10) + 1]>>
  IN (IF n < 0 THEN <<"-">> ELSE <<>>) \o NatToStr(ip) \o frac

\* String(v)
String(v) ==
  CASE v.k = "s" -> v.s
    [] v.k = "n" -> NumToStr(v.n)
    [] v.k = "undefined" -> <<"u","n","d","e","f","i","n","e","d">>
    [] v.k = "null" -> <<"n","u","l","l">>
    [] v.k = "nan" -> <<"N","a","N">>
    [] OTHER -> <<"I","n","f","i","n","i","t","y">>

\* Length of the longest prefix of s made of decimal digits.
RECURSIVE DigitRun(_)
DigitRun(s) ==
  IF s # <<>> /\ IsDigit(Head(s)) THEN 1 + DigitRun(Tail(s)) ELSE 0

\* Value of a digit string as a natural number.
RECURSIVE DigitsVal(_)
DigitsVal(s) ==
  IF s = <<>> THEN 0
  ELSE 10 * DigitsVal(SubSeq(s, 1, Len(s) - 1)) + DigitVal(s[Len(s)])

\* Value, times Scale, of the fraction digits s (digits past the second are
\* below the fixed-point resolution).
FracVal(s) ==
  IF Len(s) = 0 THEN 0
  ELSE IF Len(s) = 1 THEN 10 * DigitVal(s[1])
  ELSE 10 * DigitVal(s[1]) + DigitVal(s[2])

\* parseFloat: skip leading white space, read an optional sign, then either
\* "Infinity" or the longest decimal literal (digits, optional point and
\* digits); NaN when there is none.  Text after the literal is ignored.
\* An exponent part ("1e3") is not read: no cell of the input sets has one.
parseFloat(str) ==
  LET t == TrimStart(str)
      neg == t # <<>> /\ Head(t) = "-"
      u == IF t # <<>> /\ Head(t) \in {"-", "+"} THEN Tail(t) ELSE t
      ni == DigitRun(u)
      afterInt == SubSeq(u, ni + 1, Len(u))
      hasPoint == afterInt # <<>> /\ Head(afterInt) = "."
      nf == IF hasPoint THEN DigitRun(Tail(afterInt)) ELSE 0
      mag == Scale * DigitsVal(SubSeq(u, 1, ni))
             + FracVal(SubSeq(afterInt, 2, 1 + nf))
  IN IF StartsWith(u, <<"I","n","f","i","n","i","t","y">>) THEN Infinity
     ELSE IF ni = 0 /\ nf = 0 THEN NaN
     ELSE N(IF neg THEN -mag ELSE mag)

\* Number.isFinite
isFinite(v) == v.k = "n"

\* safeFloat(v)
safeFloat(v) ==
  LET n == parseFloat(replace(String(v), ",", "."))
  IN IF isFinite(n) THEN n ELSE Null

(***************************************************************************)
(* Normalisation of the decoded rows (pickAndParseExcel, rows.map)         *)
(***************************************************************************)
\* The property names the code reads on a row, as strings.
H_Name == <<"N","a","m","e">>

H_name == <<"n","a","m","e">>

H_Title == <<"T","i","t","l","e">>

H_Address == <<"A","d","d","r","e","s","s">>

H_address == <<"a","d","d","r","e","s","s">>

H_City == <<"C","i","t","y">>

H_city == <<"c","i","t","y">>

H_State == <<"S","t","a","t","e">>

H_state == <<"s","t","a","t","e">>

H_Country == <<"C","o","u","n","t","r","y">>

H_country == <<"c","o","u","n","t","r","y">>

H_Latitude == <<"L","a","t","i","t","u","d","e">>

H_latitude == <<"l","a","t","i","t","u","d","e">>

H_lat == <<"l","a","t">>

H_Longitude == <<"L","o","n","g","i","t","u","d","e">>

H_longitude == <<"l","o","n","g","i","t","u","d","e">>

H_lng == <<"l","n","g">>

H_Phone == <<"P","h","o","n","e">>

H_phone == <<"p","h","o","n","e">>

H_Website == <<"W","e","b","s","i","t","e">>

H_website == <<"w","e","b","s","i","t","e">>

H_Cuisine == <<"C","u","i","s","i","n","e">>

H_cuisine == <<"c","u","i","s","i","n","e">>

H_Notes == <<"N","o","t","e","s">>

H_notes == <<"n","o","t","e","s">>

Str_Unnamed == <<"U","n","n","a","m","e","d">>

\* One element of `cleaned`: the Record of row r at zero-based position idx.
NormalizeRow(r, idx) ==
  [ id      |-> NatToStr(idx) \o <<"-">>
                \o String(Or(Or(Or(Get(r, H_Name), Get(r, H_name)), Get(r, H_Title)), S(<<>>))),
    name    |-> Or(Or(Or(Get(r, H_Name), Get(r, H_name)), Get(r, H_Title)), S(Str_Unnamed)),
    address |-> Or(Or(Get(r, H_Address), Get(r, H_address)), S(<<>>)),
    city    |-> Or(Or(Get(r, H_City), Get(r, H_city)), S(<<>>)),
    state   |-> Or(Or(Get(r, H_State), Get(r, H_state)), S(<<>>)),
    country |-> Or(Or(Get(r, H_Country), Get(r, H_country)), S(<<>>)),
    lat     |-> safeFloat(Or(Or(Get(r, H_Latitude), Get(r, H_latitude)), Get(r, H_lat))),
    lng     |-> safeFloat(Or(Or(Get(r, H_Longitude), Get(r, H_longitude)), Get(r, H_lng))),
    phone   |-> Or(Or(Get(r, H_Phone), Get(r, H_phone)), S(<<>>)),
    website |-> Or(Or(Get(r, H_Website), Get(r, H_website)), S(<<>>)),
    cuisine |-> Or(Or(Get(r, H_Cuisine), Get(r, H_cuisine)), S(<<>>)),
    notes   |-> Or(Or(Get(r, H_Notes), Get(r, H_notes)), S(<<>>)) ]

\* const cleaned = rows.map((r, idx) => ({...}))
cleaned(rows) == [i \in 1..Len(rows) |-> NormalizeRow(rows[i], i - 1)]

(***************************************************************************)
(* The filtered views (TableScreen.filtered, MapScreen.geocoded/filtered)  *)
(***************************************************************************)
\* A view is [ok, rows]: ok is FALSE when evaluating it raised a TypeError.
View(rows) == [ok |-> TRUE, rows |-> rows]

TypeError == [ok |-> FALSE, rows |-> <<>>]

\* [r.name, r.city, r.cuisine, r.state, r.country]
SearchFields(r) == <<r.name, r.city, r.cuisine, r.state, r.country>>

\* .some(x => (x || '').toLowerCase().includes(q)) from element i on:
\* "true", "false", or "throw" when (x || '') is not a string and so has no
\* toLowerCase method.  some() stops at the first element that matches.
RECURSIVE some(_, _, _)
some(fs, q, i) ==
  IF i > Len(fs) THEN "false"
  ELSE LET x == Or(fs[i], S(<<>>))
       IN IF x.k # "s" THEN "throw"
          ELSE IF includes(toLowerCase(x.s), q) THEN "true"
          ELSE some(fs, q, i + 1)

\* rows.filter(r => [...].some(...)): the callback runs on every row in order.
RECURSIVE filter(_, _)
filter(rows, q) ==
  IF rows = <<>> THEN View(<<>>)
  ELSE LET m == some(SearchFields(Head(rows)), q, 1)
           rest == filter(Tail(rows), q)
       IN IF m = "throw" \/ ~rest.ok THEN TypeError
          ELSE IF m = "true" THEN View(<<Head(rows)>> \o rest.rows)
          ELSE rest

\* TableScreen: const filtered = useMemo(...)
TableFiltered(d, srch) ==
  LET q == toLowerCase(trim(srch))
  IN IF q = <<>> THEN View(d) ELSE filter(d, q)

\* MapScreen: const geocoded = useMemo(...)
geocoded(d) == SelectSeq(d, LAMBDA r : isFinite(r.lat) /\ isFinite(r.lng))

\* MapScreen: const filtered = useMemo(...)
MapFiltered(d, srch) ==
  LET q == toLowerCase(trim(srch))
  IN IF q = <<>> THEN View(geocoded(d)) ELSE filter(geocoded(d), q)

(***************************************************************************)
(* Camera framing (onMapLayout)                                            *)
(***************************************************************************)
Zoom == 14

EdgePadding == 60

Duration == 600

\* No call on mapRef was made by the last handler that ran.
NoCall == [op |-> "none", coords |-> <<>>, zoom |-> 0, padding |-> <<>>, duration |-> 0]

\* onMapLayout ran and returned before calling mapRef.
Returned == [op |-> "return", coords |-> <<>>, zoom |-> 0, padding |-> <<>>, duration |-> 0]

\* filtered.map((r) => ({ latitude: r.lat, longitude: r.lng }))
Coords(rows) == [i \in 1..Len(rows) |-> <<rows[i].lat.n, rows[i].lng.n>>]

\* A framing that takes the bounding-fit branch for a single coordinate too.
CameraFramingFitsOne(rows) ==
  IF Len(rows) = 0 THEN Returned
  ELSE [op |-> "fitToCoordinates", coords |-> Coords(rows), zoom |-> 0,
        padding |-> <<EdgePadding, EdgePadding, EdgePadding, EdgePadding>>,
        duration |-> 0]

\* The call onMapLayout makes on mapRef.current for the filtered rows.  The
\* ref is attached when the MapView mounts, before its layout event.
CameraFraming(rows) ==
  IF Len(rows) = 0 THEN Returned
  ELSE IF Len(Coords(rows)) = 1
  THEN [op |-> "animateCamera", coords |-> Coords(rows), zoom |-> Zoom,
        padding |-> <<>>, duration |-> Duration]
  ELSE [op |-> "fitToCoordinates", coords |-> Coords(rows), zoom |-> 0,
        padding |-> <<EdgePadding, EdgePadding, EdgePadding, EdgePadding>>,
        duration |-> 0]

(***************************************************************************)
(* Inputs                                                                  *)
(***************************************************************************)
\* Concurrent invocations of the import handler that may be in flight.
MaxAttempts == 2

Attempts == 1..MaxAttempts

\* What the document picker can hand back: [kind, rows].  kind "xlsx" is a
\* workbook whose first sheet decodes to rows; kind "corrupt" is a payload
\* XLSX.read rejects.
Workbook(rows) == [kind |-> "xlsx", rows |-> rows]

Corrupt == [kind |-> "corrupt", rows |-> <<>>]

NoFile == [kind |-> "none", rows |-> <<>>]

Row2(h1, c1, h2, c2) == (h1 :> c1) @@ (h2 :> c2)

Row3(h1, c1, h2, c2, h3, c3) == (h1 :> c1) @@ (h2 :> c2) @@ (h3 :> c3)

Row4(h1, c1, h2, c2, h3, c3, h4, c4) ==
  (h1 :> c1) @@ (h2 :> c2) @@ (h3 :> c3) @@ (h4 :> c4)

\* [{Name:"A", City:"X", Latitude:"1,5", Longitude:"2.0"}, {name:"b", city:"x"}]
SheetTwo ==
  << Row4(H_Name, S(<<"A">>), H_City, S(<<"X">>), H_Latitude, S(<<"1",",","5">>), H_Longitude, S(<<"2",".","0">>)),
     Row2(H_name, S(<<"b">>), H_city, S(<<"x">>)) >>

\* Three geocoded rows with numeric coordinate cells, one row without.
SheetThree ==
  << Row4(H_Name, S(<<"B","o">>), H_City, S(<<"Y">>), H_Latitude, N(100), H_Longitude, N(-250)),
     Row3(H_Name, S(<<"C","y">>), H_Latitude, N(300), H_Longitude, S(<<"4">>)),
     Row2(H_Name, S(<<"D","i">>), H_Cuisine, S(<<"T","h","a","i">>)),
     Row4(H_Title, S(<<"E","d">>), H_State, S(<<"X","Y">>), H_lat, S(<<"-","5",".","2","5">>), H_lng, N(700)) >>

\* A numeric cell under the Name header (a restaurant called 5).
SheetNumeric ==
  << Row3(H_Name, N(500), H_Latitude, N(100), H_Longitude, N(200)) >>

Files == {Workbook(SheetTwo), Workbook(SheetThree), Workbook(SheetNumeric), Corrupt}

\* Texts typed into the search box.
Queries == {<<>>, <<" ">>, <<"x">>, <<" ","B"," ">>, <<"t","h","a","i">>}

(***************************************************************************)
(* State                                                                   *)
(*   data, error, search : the three useState cells of App                 *)
(*   pc[i], file[i]      : where invocation i of the import handler is,    *)
(*                         and the document it picked                      *)
(*   lastCall            : the call the last handler made on mapRef        *)
(*   lastDone, lastOk    : history: how the invocation that completed last *)
(*                         ended, whether it overlapped another one, and   *)
(*                         the document of the last successful one         *)
(***************************************************************************)
ErrNull == "null"

ErrMsg == "Failed to read that file. Make sure it's an .xlsx or .xls with a header row."

NotDone == [how |-> "none", overlapped |-> FALSE]

Init ==
  /\ data = <<>>
  /\ error = ErrNull
  /\ search = <<>>
  /\ pc = [i \in Attempts |-> [at |-> "idle", overlapped |-> FALSE]]
  /\ file = [i \in Attempts |-> NoFile]
  /\ lastCall = NoCall
  /\ lastDone = NotDone
  /\ lastOk = NoFile

\* Rendering TableScreen raised: with no error boundary the tree unmounts.
Crashed == ~TableFiltered(data, search).ok

InFlight(i) == pc[i].at # "idle"

\* A setData that appends the new rows to the collection it holds.
setDataAppend(prev, new) == prev \o new

\* setData(cleaned): the collection is replaced by the new one.
setData(prev, new) == new

\* A catch block that also clears the collection.
CatchClears(prev) == [data |-> <<>>, error |-> ErrMsg]

\* The catch block: the collection is not written, the message is set.
Catch(prev) == [data |-> prev, error |-> ErrMsg]

Done(i, how) ==
  /\ pc' = [pc EXCEPT ![i] = [at |-> "idle", overlapped |-> FALSE]]
  /\ file' = [file EXCEPT ![i] = NoFile]
  /\ lastDone' = [how |-> how, overlapped |-> pc[i].overlapped]

\* Import pressed: setError(null), then the picker opens (lines 29-30).
StartImport(i) ==
  /\ pc[i].at = "idle"
  /\ ~Crashed
  /\ error' = ErrNull
  /\ pc' = [j \in Attempts |->
              IF j = i THEN [at |-> "picking", overlapped |-> \E k \in Attempts : InFlight(k)]
              ELSE IF InFlight(j) THEN [pc[j] EXCEPT !.overlapped = TRUE]
              ELSE pc[j]]
  /\ lastCall' = NoCall
  /\ UNCHANGED <<data, search, file, lastDone, lastOk>>

\* The picker resolves canceled or without assets: return (line 39).
PickerCanceled(i) ==
  /\ pc[i].at = "picking"
  /\ ~Crashed
  /\ Done(i, "canceled")
  /\ lastCall' = NoCall
  /\ UNCHANGED <<data, error, search, lastOk>>

\* getDocumentAsync rejects: the catch block runs (lines 63-66).
PickerThrows(i) ==
  /\ pc[i].at = "picking"
  /\ ~Crashed
  /\ data' = Catch(data).data
  /\ error' = Catch(data).error
  /\ Done(i, "failed")
  /\ lastCall' = NoCall
  /\ UNCHANGED <<search, lastOk>>

\* The picker resolves with a document; the read starts (lines 40-41).
PickerChose(i, f) ==
  /\ pc[i].at = "picking"
  /\ ~Crashed
  /\ pc' = [pc EXCEPT ![i].at = "reading"]
  /\ file' = [file EXCEPT ![i] = f]
  /\ lastCall' = NoCall
  /\ UNCHANGED <<data, error, search, lastDone, lastOk>>

\* readAsStringAsync rejects: the catch block runs.
ReadThrows(i) ==
  /\ pc[i].at = "reading"
  /\ ~Crashed
  /\ data' = Catch(data).data
  /\ error' = Catch(data).error
  /\ Done(i, "failed")
  /\ lastCall' = NoCall
  /\ UNCHANGED <<search, lastOk>>

\* The read resolves and XLSX.read throws on the payload: the catch block runs.
DecodeThrows(i) ==
  /\ pc[i].at = "reading"
  /\ ~Crashed
  /\ file[i].kind = "corrupt"
  /\ data' = Catch(data).data
  /\ error' = Catch(data).error
  /\ Done(i, "failed")
  /\ lastCall' = NoCall
  /\ UNCHANGED <<search, lastOk>>

\* The read resolves, the workbook decodes, the rows are normalised and
\* setData(cleaned) runs (lines 43-62).
ImportSucceeds(i) ==
  /\ pc[i].at = "reading"
  /\ ~Crashed
  /\ file[i].kind = "xlsx"
  /\ data' = setData(data, cleaned(file[i].rows))
  /\ lastOk' = file[i]
  /\ Done(i, "ok")
  /\ lastCall' = NoCall
  /\ UNCHANGED <<error, search>>

\* onChangeText={setSearch}
setSearch(q) ==
  /\ q # search
  /\ ~Crashed
  /\ search' = q
  /\ lastCall' = NoCall
  /\ UNCHANGED <<data, error, pc, file, lastDone, lastOk>>

\* The MapView's layout event.
onMapLayout ==
  /\ ~Crashed
  /\ lastCall' = CameraFraming(MapFiltered(data, search).rows)
  /\ UNCHANGED <<data, error, search, pc, file, lastDone, lastOk>>

\* Every handler is guarded by ~Crashed: once rendering has raised, the tree
\* is unmounted and no handler runs.
Next ==
  \/ \E i \in Attempts : StartImport(i)
  \/ \E i \in Attempts : PickerCanceled(i)
  \/ \E i \in Attempts : PickerThrows(i)
  \/ \E i \in Attempts, f \in Files : PickerChose(i, f)
  \/ \E i \in Attempts : ReadThrows(i)
  \/ \E i \in Attempts : DecodeThrows(i)
  \/ \E i \in Attempts : ImportSucceeds(i)
  \/ \E q \in Queries : setSearch(q)
  \/ onMapLayout

Spec == Init /\ [][Next]_vars

(***************************************************************************)
(* Normalisation alone: one invocation has picked a workbook and its read  *)
(* is outstanding; the only step is the one that decodes, normalises and   *)
(* stores it.  The workbooks range over header spellings and cell values.  *)
(***************************************************************************)
H_NAME == <<"N","A","M","E">>

NameHeaders == {H_Name, H_name, H_Title, H_NAME}

NameCells == {S(<<"A">>), S(<<>>), N(500), N(0)}

LatHeaders == {H_Latitude, H_latitude, H_lat}

LatCells == {S(<<"4","5",",","1","2">>), S(<<"a","b","c">>), S(<<>>), N(1250), N(0), S(<<"0">>),
             S(<<"I","n","f","i","n","i","t","y">>), S(<<"-","3">>), S(<<" ","7","x">>)}

LngCells == {S(<<"2",".","0">>), N(0)}

NormFiles ==
  {Workbook(<<Row3(hn, cn, hl, cl, H_Longitude, cg)>>) :
      hn \in NameHeaders, cn \in NameCells, hl \in LatHeaders, cl \in LatCells, cg \in LngCells}
  \cup {Workbook(<<Row2(H_Name, c1, H_name, c2)>>) : c1 \in NameCells, c2 \in NameCells}
  \cup {Workbook(SheetTwo), Workbook(SheetThree)}

InitNorm ==
  /\ data = <<>>
  /\ error = ErrNull
  /\ search = <<>>
  /\ \E f \in NormFiles :
       /\ pc = [i \in Attempts |-> [at |-> IF i = 1 THEN "reading" ELSE "idle", overlapped |-> FALSE]]
       /\ file = [i \in Attempts |-> IF i = 1 THEN f ELSE NoFile]
  /\ lastCall = NoCall
  /\ lastDone = NotDone
  /\ lastOk = NoFile

NextNorm == \E i \in Attempts : ImportSucceeds(i)

SpecNorm == InitNorm /\ [][NextNorm]_vars

\* The same, over workbooks of text cells under headers in several spellings.
H_CITY == <<"C","I","T","Y">>

AliasFiles ==
  {Workbook(<<Row2(hn, cn, hc, cc)>>) :
      hn \in {H_Name, H_name, H_Title, H_NAME}, cn \in {S(<<"A">>), S(<<>>), S(<<"b">>)},
      hc \in {H_City, H_city, H_CITY}, cc \in {S(<<"X">>), S(<<>>), S(<<"y">>)}}
  \cup {Workbook(<<Row2(H_Name, c1, H_name, c2)>>) :
      c1 \in {S(<<"A">>), S(<<>>), S(<<"b">>)}, c2 \in {S(<<"A">>), S(<<>>), S(<<"b">>)}}

InitAlias ==
  /\ data = <<>>
  /\ error = ErrNull
  /\ search = <<>>
  /\ \E f \in AliasFiles :
       /\ pc = [i \in Attempts |-> [at |-> IF i = 1 THEN "reading" ELSE "idle", overlapped |-> FALSE]]
       /\ file = [i \in Attempts |-> IF i = 1 THEN f ELSE NoFile]
  /\ lastCall = NoCall
  /\ lastDone = NotDone
  /\ lastOk = NoFile

SpecAlias == InitAlias /\ [][NextNorm]_vars

(***************************************************************************)
(* The derived views of the current state                                  *)
(***************************************************************************)
TableView == TableFiltered(data, search)

MapView == MapFiltered(data, search)

\* q, as both screens compute it from search
Query == toLowerCase(trim(search))

AllIdle == \A i \in Attempts : ~InFlight(i)

(***************************************************************************)
(* Claims                                                                  *)
(***************************************************************************)

\* C1: an import attempt that fails (the picker, the read or the decode
\* throws) leaves the Record collection exactly as it was before the failing
\* step and sets the static error message.
C1_FailedImportKeepsRecords ==
  [][\A i \in Attempts :
        (InFlight(i) /\ ~InFlight(i)' /\ lastDone'.how = "failed")
          => (data' = data /\ error' = ErrMsg)]_vars

\* C1 witness: an attempt has failed while Records from an earlier import
\* are loaded, and the message is shown beside them.
C1_Witness == lastDone.how = "failed" /\ data # <<>> /\ error = ErrMsg

\* C2: under any interleaving of overlapping import attempts the Record
\* collection is the initial empty collection while no import has succeeded,
\* and otherwise the complete normalised output of the one successful import
\* that completed last (never a mix of two imports); in particular so once
\* every attempt has finished.
C2_LastCompletedImportWins ==
  /\ lastOk = NoFile => data = <<>>
  /\ lastOk # NoFile =>
        /\ lastOk.kind = "xlsx"
        /\ Len(data) = Len(lastOk.rows)
        /\ \A i \in 1..Len(data) : data[i] = NormalizeRow(lastOk.rows[i], i - 1)

\* C2 witness: every attempt has finished, and the one that finished last
\* succeeded after running while another attempt was in flight.
C2_Witness ==
  AllIdle /\ lastDone.how = "ok" /\ lastDone.overlapped /\ data # <<>>

\* C3: after any successful import or query change that alters the filtered
\* geocoded subset shown on the map, a framing instruction computed from the
\* new (non-empty) subset is issued by that very step, not only by the map's
\* layout event.
C3_FramingOnEveryChange ==
  [][(MapView' # MapView /\ MapView'.ok /\ MapView'.rows # <<>>)
        => (/\ lastCall'.op \in {"animateCamera", "fitToCoordinates"}
            /\ lastCall'.coords = Coords(MapView'.rows))]_vars

\* C4: when framing is computed on the filtered geocoded subset S: empty S
\* issues no camera call; one record gives center-zoom on its (lat, lng)
\* with zoom 14; two or more give a bounding fit over all coordinates of S
\* in order with one non-zero padding on all four edges.  The call depends
\* on S alone, so computing it again on the same S gives the same call.
C4_CameraFramingCases ==
  lastCall # NoCall =>
    LET rows == MapView.rows
    IN /\ MapView.ok
       /\ Len(rows) = 0 => lastCall = Returned
       /\ Len(rows) = 1 =>
            /\ lastCall.op = "animateCamera"
            /\ lastCall.coords = << <<rows[1].lat.n, rows[1].lng.n>> >>
            /\ lastCall.zoom = 14
       /\ Len(rows) >= 2 =>
            /\ lastCall.op = "fitToCoordinates"
            /\ Len(lastCall.coords) = Len(rows)
            /\ \A i \in 1..Len(rows) :
                 lastCall.coords[i] = <<rows[i].lat.n, rows[i].lng.n>>
            /\ Len(lastCall.padding) = 4
            /\ \A i \in 1..4 : lastCall.padding[i] = lastCall.padding[1]
            /\ lastCall.padding[1] > 0

\* C4 witness: the layout handler has framed a subset of three records.
C4_Witness == lastCall.op = "fitToCoordinates" /\ Len(lastCall.coords) = 3

\* A Record matches when one of name, city, cuisine, state, country contains
\* the trimmed query as a case-insensitive substring.
MatchesQuery(r) ==
  \E i \in 1..Len(SearchFields(r)) :
     includes(toLowerCase(String(SearchFields(r)[i])), Query)

IsGeocoded(r) == r.lat.k = "n" /\ r.lng.k = "n"

\* C5: the list view is the sub-sequence, in original order, of exactly the
\* Records of the collection that match the query; for an empty or
\* whitespace-only query it is the collection itself.
C5_ListViewIsMatchingSubsequence ==
  TableView = View(IF Query = <<>> THEN data ELSE SelectSeq(data, MatchesQuery))

\* C5 restricted to collections whose searchable fields are all strings.
SearchFieldsAreText ==
  \A i \in 1..Len(data) : \A j \in 1..5 : SearchFields(data[i])[j].k = "s"

C5_OnTextFields == SearchFieldsAreText => C5_ListViewIsMatchingSubsequence

\* C6: the map view is exactly the Records whose lat and lng are both
\* finite numbers and that match the query, in original order; it equals the
\* list view restricted to geocoded Records, and no Record with a null lat
\* or lng is a marker.
C6_MapViewIsGeocodedMatches ==
  /\ MapView = View(SelectSeq(data,
                 LAMBDA r : IsGeocoded(r) /\ (Query = <<>> \/ MatchesQuery(r))))
  /\ TableView.ok
  /\ MapView.rows = SelectSeq(TableView.rows, IsGeocoded)
  /\ \A i \in 1..Len(MapView.rows) : IsGeocoded(MapView.rows[i])

C6_OnTextFields == SearchFieldsAreText => C6_MapViewIsGeocodedMatches

\* C7: evaluating the list-view filter and the map-view filter never raises,
\* whatever cells (strings, numbers, empty) the Records were normalised from.
C7_FiltersNeverThrow == TableView.ok /\ MapView.ok

\* A cell that is present and not the empty string.
NonEmptyCell(c) == c.k # "undefined" /\ c # S(<<>>)

\* The first non-empty cell among cells, or undefined.
FirstNonEmpty(cells) ==
  IF \E j \in 1..Len(cells) : NonEmptyCell(cells[j])
  THEN cells[CHOOSE j \in 1..Len(cells) :
               /\ NonEmptyCell(cells[j])
               /\ \A k \in 1..(j - 1) : ~NonEmptyCell(cells[k])]
  ELSE Undefined

\* The coordinate the claim gives for a resolved cell c.
ClaimedCoord(c) ==
  LET n == parseFloat(replace(String(c), ",", "."))
  IN IF c.k = "n" THEN c ELSE IF n.k = "n" THEN n ELSE Null

\* C8: a Record's lat (and lng) is the number parsed from the resolved
\* coordinate cell when that is finite, null only when the cell is absent,
\* empty or unparsable; a cell holding a finite number, 0 included, yields
\* that number; the result is never NaN or Infinity.
C8_CoordinateCoercion ==
  (lastOk # NoFile /\ Len(data) = Len(lastOk.rows)) =>
    \A i \in 1..Len(data) :
      LET r == lastOk.rows[i]
      IN /\ data[i].lat = ClaimedCoord(FirstNonEmpty(
                 <<Get(r, H_Latitude), Get(r, H_latitude), Get(r, H_lat)>>))
         /\ data[i].lng = ClaimedCoord(FirstNonEmpty(
                 <<Get(r, H_Longitude), Get(r, H_longitude), Get(r, H_lng)>>))
         /\ data[i].lat.k \in {"n", "null"}
         /\ data[i].lng.k \in {"n", "null"}

\* C8 for rows none of whose coordinate cells is the number 0.
NoZeroCoordCell(r) ==
  \A h \in {H_Latitude, H_latitude, H_lat, H_Longitude, H_longitude, H_lng} :
     Get(r, h) # N(0)

C8_ExceptNumericZero ==
  (lastOk # NoFile /\ Len(data) = Len(lastOk.rows)) =>
    \A i \in 1..Len(data) :
      LET r == lastOk.rows[i]
      IN NoZeroCoordCell(r) =>
           /\ data[i].lat = ClaimedCoord(FirstNonEmpty(
                   <<Get(r, H_Latitude), Get(r, H_latitude), Get(r, H_lat)>>))
           /\ data[i].lng = ClaimedCoord(FirstNonEmpty(
                   <<Get(r, H_Longitude), Get(r, H_longitude), Get(r, H_lng)>>))

\* The priority-ordered aliases and the default of each string field.
Aliases ==
  [ name    |-> <<H_Name, H_name, H_Title>>,
    address |-> <<H_Address, H_address>>,
    city    |-> <<H_City, H_city>>,
    state   |-> <<H_State, H_state>>,
    country |-> <<H_Country, H_country>>,
    phone   |-> <<H_Phone, H_phone>>,
    website |-> <<H_Website, H_website>>,
    cuisine |-> <<H_Cuisine, H_cuisine>>,
    notes   |-> <<H_Notes, H_notes>> ]

DefaultOf(fld) == IF fld = "name" THEN S(Str_Unnamed) ELSE S(<<>>)

\* The value the claim gives field fld of row r: the first non-empty cell
\* among the aliases in priority order, a header spelled in another letter
\* case counting for its alias, and the default when there is none.
ClaimedField(r, fld) ==
  LET as == Aliases[fld]
      exact == FirstNonEmpty([j \in 1..Len(as) |-> Get(r, as[j])])
      loose == {h \in DOMAIN r :
                  /\ NonEmptyCell(r[h])
                  /\ \E j \in 1..Len(as) : toLowerCase(h) = toLowerCase(as[j])}
  IN IF exact # Undefined THEN exact
     ELSE IF loose # {} THEN r[CHOOSE h \in loose : TRUE]
     ELSE DefaultOf(fld)

\* C9: every string field of every Record is the first non-empty cell among
\* the field's aliases in priority order, headers matched regardless of
\* letter case; the default is used only when no alias cell is non-empty.
C9_AliasResolution ==
  (lastOk # NoFile /\ Len(data) = Len(lastOk.rows)) =>
    \A i \in 1..Len(data) : \A fld \in DOMAIN Aliases :
      data[i][fld] = ClaimedField(lastOk.rows[i], fld)

\* C9 for rows whose headers are spelled exactly as an alias and whose
\* cells are not the number 0.
ExactHeadersNoZero(r) ==
  \A h \in DOMAIN r :
     /\ r[h] # N(0)
     /\ \A fld \in DOMAIN Aliases : \A j \in 1..Len(Aliases[fld]) :
          toLowerCase(h) = toLowerCase(Aliases[fld][j])
            => \E k \in 1..Len(Aliases[fld]) : h = Aliases[fld][k]

C9_ExactHeadersNoZero ==
  (lastOk # NoFile /\ Len(data) = Len(lastOk.rows)) =>
    \A i \in 1..Len(data) : \A fld \in DOMAIN Aliases :
      ExactHeadersNoZero(lastOk.rows[i])
        => data[i][fld] = ClaimedField(lastOk.rows[i], fld)

\* C10: whenever the import attempt that completed most recently was
\* successful, the error message is null.
C10_NoErrorBesideFreshData == lastDone.how = "ok" => error = ErrNull

\* C10 for attempts that did not overlap any other attempt.
C10_WithoutOverlap ==
  (lastDone.how = "ok" /\ ~lastDone.overlapped /\ AllIdle) => error = ErrNull

====
